---- MODULE Spec2Model ----
(***************************************************************************)
(* tcp-cl-proxy: a TCP proxy that limits the number of concurrent backend  *)
(* connections with a mutex/condition gate (waiting, active, wCond).       *)
(*                                                                         *)
(* The repository holds two builds of package main:                        *)
(*   "proxy" : src/main.go          - proxy(c), defer-based                *)
(*   "mind"  : src/unnamed/part_000 - client.mind(), struct-based          *)
(* The variable `variant` says which build is running.                     *)
(*                                                                         *)
(* sync.Mutex, sync.Cond, sync.WaitGroup, unbuffered channels, io.Copy and *)
(* net.Conn are modelled by their documented Go semantics.                 *)
(***************************************************************************)
EXTENDS Integers, FiniteSets, Sequences, TLC

\* ---- bounds -------------------------------------------------------------
MaxSessions == 3      \* connections the accept loop hands out
MaxCapacity == 2      \* largest value of the -c flag explored

Sessions == 1..MaxSessions
Dirs     == {"to", "from"}     \* copyTo: client->backend, copyFrom: backend->client
NoOwner  == 0
NoRead   == 0 - 1              \* the stats handler holds no value of active

VARIABLES
    variant,      \* "proxy" (main.go) or "mind" (part_000)
    concurrency,  \* var concurrency, set once by flag -c
    mu,           \* wCond.L : NoOwner or the session holding the mutex
    waiting,      \* var waiting
    active,       \* var active
    accepted,     \* number of connections returned by ln.Accept()
    pc,           \* position of each session goroutine
    tpc,          \* position of each copy goroutine
    wg,           \* sync.WaitGroup counter of the session
    conn,         \* client socket c / c.conn :
                  \*   "open" | "peerclosed" (remote end closed) | "closed" (Close called)
    server,       \* backend socket p / c.server :
                  \*   "nil" (never dialed) | "open" | "peerclosed" | "closed"
    err,          \* err / c.err is non-nil
    status,       \* outcome record printed: "none" | "success" | "error"
    didWait,      \* the session has called wCond.Wait() (c.didWait)
    relW,         \* history: number of active-- executed while waiting > 0
    nAcq,         \* history: number of active++ executed by the session
    nRel,         \* history: number of active-- executed by the session
    crashed,      \* the process died of an unrecovered panic
    evs,          \* history: the observable events of each session, in order
    count,        \* var count (part_000): sessions numbered so far
    ID,           \* c.ID (part_000): sequence number of the session, 0 = unset
    statA,        \* stats handler: the value of active it has read, or NoRead
    bypassed      \* history: how often a later arrival was admitted while
                  \*   the session was blocked in wCond.Wait()

vars == <<variant, concurrency, mu, waiting, active, accepted, pc, tpc, wg,
          conn, server, err, status, didWait, relW, nAcq, nRel, crashed,
          evs, count, ID, statA, bypassed>>

hist == <<relW, nAcq, nRel>>

gate == <<mu, waiting, active>>

\* ---- helpers ------------------------------------------------------------

\* mutant: the limit is tested with > instead of ==
GateFull_gt(a, c) == a > c

\* for active == concurrency { ... }
GateFull(a, c) == a = c

\* sessions blocked inside wCond.Wait()
Parked == {s \in Sessions : pc[s] = "parked"}

\* mutant: the release forgets to signal the condition
SignalTargets_none == {}

\* wCond.Signal(): the goroutines one of which is woken (none: no-op)
SignalTargets == Parked

\* what a session does that its peers, the gate or the log can observe
Events == {"acquire", "dial", "pumpend", "closebackend", "closeclient",
           "release", "record", "println"}

\* session s does the events es, in this order
Emit(s, es) == [evs EXCEPT ![s] = evs[s] \o es]

\* sessions that have called wCond.Wait() and have not been admitted since
Blocked == {u \in Sessions : pc[u] \in {"parked", "woken"}}

\* session s is admitted: the blocked sessions it overtakes, when it never
\* had to wait itself (it locked the mutex after they had parked)
Overtaken(s) == IF didWait[s] THEN {} ELSE Blocked

\* the process is alive and session s is at position p
At(s, p) == ~crashed /\ pc[s] = p

\* io.Copy(dst, src): Read(src) returns EOF or an error
ReadReturns(s, d) ==
    IF d = "to" THEN conn[s] # "open" ELSE server[s] # "open"

\* io.Copy(dst, src): src can still deliver bytes and Write(dst) would fail
WriteFails(s, d) ==
    IF d = "to"
    THEN conn[s] = "open" /\ server[s] # "open"
    ELSE server[s] = "open" /\ conn[s] # "open"

TypeOK ==
    /\ variant \in {"proxy", "mind"}
    /\ concurrency \in 1..MaxCapacity
    /\ mu \in Sessions \cup {NoOwner}
    /\ waiting \in Int /\ active \in Int
    /\ accepted \in 0..MaxSessions
    /\ pc \in [Sessions -> {"none", "acquire", "check", "parked", "woken",
                            "dial", "pump", "pclose", "teardown", "release",
                            "signal", "finish", "done"}]
    /\ tpc \in [Sessions -> [Dirs -> {"none", "copy", "send", "exit"}]]
    /\ wg \in [Sessions -> Int]
    /\ conn \in [Sessions -> {"open", "peerclosed", "closed"}]
    /\ server \in [Sessions -> {"nil", "open", "peerclosed", "closed"}]
    /\ err \in [Sessions -> BOOLEAN]
    /\ status \in [Sessions -> {"none", "success", "error"}]
    /\ didWait \in [Sessions -> BOOLEAN]
    /\ relW \in Nat
    /\ nAcq \in [Sessions -> Nat]
    /\ nRel \in [Sessions -> Nat]
    /\ crashed \in BOOLEAN
    /\ evs \in [Sessions -> Seq(Events)]
    /\ count \in Nat
    /\ ID \in [Sessions -> Nat]
    /\ statA \in Int
    /\ bypassed \in [Sessions -> Nat]

Init ==
    /\ variant \in {"proxy", "mind"}
    /\ concurrency \in 1..MaxCapacity
    /\ mu = NoOwner
    /\ waiting = 0
    /\ active = 0
    /\ accepted = 0
    /\ pc = [s \in Sessions |-> "none"]
    /\ tpc = [s \in Sessions |-> [d \in Dirs |-> "none"]]
    /\ wg = [s \in Sessions |-> 0]
    /\ conn = [s \in Sessions |-> "open"]
    /\ server = [s \in Sessions |-> "nil"]
    /\ err = [s \in Sessions |-> FALSE]
    /\ status = [s \in Sessions |-> "none"]
    /\ didWait = [s \in Sessions |-> FALSE]
    /\ relW = 0
    /\ nAcq = [s \in Sessions |-> 0]
    /\ nRel = [s \in Sessions |-> 0]
    /\ crashed = FALSE
    /\ evs = [s \in Sessions |-> <<>>]
    /\ count = 0
    /\ ID = [s \in Sessions |-> 0]
    /\ statA = NoRead
    /\ bypassed = [s \in Sessions |-> 0]

\* ---- accept loop --------------------------------------------------------

\* server(): conn := ln.Accept(); go proxy(conn) / go handleClient(conn)
Accept ==
    /\ ~crashed
    /\ accepted < MaxSessions
    /\ accepted' = accepted + 1
    /\ pc' = [pc EXCEPT ![accepted + 1] = "acquire"]
    /\ UNCHANGED <<variant, concurrency, gate, tpc, wg, conn, server, err,
                   status, didWait, hist, crashed>>
    /\ UNCHANGED <<evs, count, ID, statA, bypassed>>

\* ---- build "proxy" (src/main.go) -----------------------------------------

\* pre(): wCond.L.Lock(); waiting++
pre_Lock(s) ==
    /\ variant = "proxy" /\ At(s, "acquire")
    /\ mu = NoOwner
    /\ mu' = s
    /\ waiting' = waiting + 1
    /\ pc' = [pc EXCEPT ![s] = "check"]
    /\ UNCHANGED <<variant, concurrency, active, accepted, tpc, wg, conn,
                   server, err, status, didWait, hist, crashed>>
    /\ UNCHANGED <<evs, count, ID, statA, bypassed>>

\* mutant: `if` instead of `for`: no re-check of the limit after Wait()
pre_Check_if(s) ==
    /\ variant = "proxy" /\ At(s, "check")
    /\ mu = s
    /\ IF GateFull(active, concurrency) /\ ~didWait[s]
       THEN /\ pc' = [pc EXCEPT ![s] = "parked"]
            /\ mu' = NoOwner
            /\ didWait' = [didWait EXCEPT ![s] = TRUE]
            /\ UNCHANGED <<waiting, active, nAcq, evs, bypassed>>
       ELSE /\ pc' = [pc EXCEPT ![s] = "dial"]
            /\ waiting' = waiting - 1
            /\ active' = active + 1
            /\ mu' = NoOwner
            /\ nAcq' = [nAcq EXCEPT ![s] = nAcq[s] + 1]
            /\ evs' = Emit(s, <<"acquire">>)
            /\ bypassed' = [u \in Sessions |->
                              IF u \in Overtaken(s) THEN bypassed[u] + 1
                                                     ELSE bypassed[u]]
            /\ UNCHANGED didWait
    /\ UNCHANGED <<variant, concurrency, accepted, tpc, wg, conn,
                   server, err, status, relW, nRel, crashed>>
    /\ UNCHANGED <<count, ID, statA>>

\* pre(): for active == concurrency { wCond.Wait() }
\* Wait() enqueues the caller and unlocks the mutex in one step.
\* Otherwise waiting--; active++; deferred wCond.L.Unlock(); pre() returns.
pre_Check(s) ==
    /\ variant = "proxy" /\ At(s, "check")
    /\ mu = s
    /\ IF GateFull(active, concurrency)
       THEN /\ pc' = [pc EXCEPT ![s] = "parked"]
            /\ mu' = NoOwner
            /\ didWait' = [didWait EXCEPT ![s] = TRUE]
            /\ UNCHANGED <<waiting, active, nAcq, evs, bypassed>>
       ELSE /\ pc' = [pc EXCEPT ![s] = "dial"]
            /\ waiting' = waiting - 1
            /\ active' = active + 1
            /\ mu' = NoOwner
            /\ nAcq' = [nAcq EXCEPT ![s] = nAcq[s] + 1]
            /\ evs' = Emit(s, <<"acquire">>)
            /\ bypassed' = [u \in Sessions |->
                              IF u \in Overtaken(s) THEN bypassed[u] + 1
                                                     ELSE bypassed[u]]
            /\ UNCHANGED didWait
    /\ UNCHANGED <<variant, concurrency, accepted, tpc, wg, conn,
                   server, err, status, relW, nRel, crashed>>
    /\ UNCHANGED <<count, ID, statA>>

\* pre(): wCond.Wait() returns after a Signal: it re-locks the mutex
pre_Wake(s) ==
    /\ variant = "proxy" /\ At(s, "woken")
    /\ mu = NoOwner
    /\ mu' = s
    /\ pc' = [pc EXCEPT ![s] = "check"]
    /\ UNCHANGED <<variant, concurrency, waiting, active, accepted, tpc, wg,
                   conn, server, err, status, didWait, hist,
                   crashed>>
    /\ UNCHANGED <<evs, count, ID, statA, bypassed>>

\* proxy(): p, err = net.Dial(...); on error return (runs the defers
\* registered so far: post, c.Close, log); otherwise defer p.Close(),
\* w.Add(2) and start the two copy goroutines.
proxy_Dial(s) ==
    /\ variant = "proxy" /\ At(s, "dial")
    /\ \E ok \in BOOLEAN :
         IF ok
         THEN /\ server' = [server EXCEPT ![s] = "open"]
              /\ wg' = [wg EXCEPT ![s] = 2]
              /\ tpc' = [tpc EXCEPT ![s] = [d \in Dirs |-> "copy"]]
              /\ pc' = [pc EXCEPT ![s] = "pump"]
              /\ UNCHANGED err
         ELSE /\ err' = [err EXCEPT ![s] = TRUE]
              /\ pc' = [pc EXCEPT ![s] = "release"]
              /\ UNCHANGED <<server, wg, tpc>>
    /\ UNCHANGED <<variant, concurrency, gate, accepted, conn, status,
                   didWait, hist, crashed>>
    /\ evs' = Emit(s, <<"dial">>)
    /\ UNCHANGED <<count, ID, statA, bypassed>>

\* copy goroutine of proxy(): io.Copy(...) returns because the read side
\* ended; then w.Done()
proxy_Copy(s, d) ==
    /\ variant = "proxy" /\ ~crashed
    /\ tpc[s][d] = "copy"
    /\ ReadReturns(s, d)
    /\ wg' = [wg EXCEPT ![s] = wg[s] - 1]
    /\ tpc' = [tpc EXCEPT ![s][d] = "exit"]
    /\ UNCHANGED <<variant, concurrency, gate, accepted, pc, conn, server,
                   err, status, didWait, hist, crashed>>
    /\ UNCHANGED <<evs, count, ID, statA, bypassed>>

\* copy goroutine of proxy(): bytes arrive from the source peer and the
\* write to the broken destination fails; then w.Done()
proxy_CopyWriteErr(s, d) ==
    /\ variant = "proxy" /\ ~crashed
    /\ tpc[s][d] = "copy"
    /\ WriteFails(s, d)
    /\ wg' = [wg EXCEPT ![s] = wg[s] - 1]
    /\ tpc' = [tpc EXCEPT ![s][d] = "exit"]
    /\ UNCHANGED <<variant, concurrency, gate, accepted, pc, conn, server,
                   err, status, didWait, hist, crashed>>
    /\ UNCHANGED <<evs, count, ID, statA, bypassed>>

\* proxy(): w.Wait() returns when the counter is zero; doneAt = time.Now()
proxy_Wait(s) ==
    /\ variant = "proxy" /\ At(s, "pump")
    /\ wg[s] = 0
    /\ pc' = [pc EXCEPT ![s] = "pclose"]
    /\ UNCHANGED <<variant, concurrency, gate, accepted, tpc, wg, conn,
                   server, err, status, didWait, hist, crashed>>
    /\ evs' = Emit(s, <<"pumpend">>)
    /\ UNCHANGED <<count, ID, statA, bypassed>>

\* mutant: the backend socket is not closed before the slot is released
proxy_pClose_skip(s) ==
    /\ variant = "proxy" /\ At(s, "pclose")
    /\ pc' = [pc EXCEPT ![s] = "release"]
    /\ UNCHANGED <<variant, concurrency, gate, accepted, tpc, wg, conn,
                   server, err, status, didWait, hist, crashed>>
    /\ UNCHANGED <<evs, count, ID, statA, bypassed>>

\* proxy(): deferred p.Close()
proxy_pClose(s) ==
    /\ variant = "proxy" /\ At(s, "pclose")
    /\ server' = [server EXCEPT ![s] = "closed"]
    /\ pc' = [pc EXCEPT ![s] = "release"]
    /\ UNCHANGED <<variant, concurrency, gate, accepted, tpc, wg, conn, err,
                   status, didWait, hist, crashed>>
    /\ evs' = Emit(s, <<"closebackend">>)
    /\ UNCHANGED <<count, ID, statA, bypassed>>

\* post(): wCond.L.Lock(); active--; wCond.L.Unlock()
post_Dec(s) ==
    /\ variant = "proxy" /\ At(s, "release")
    /\ mu = NoOwner
    /\ active' = active - 1
    /\ relW' = IF waiting > 0 THEN relW + 1 ELSE relW
    /\ nRel' = [nRel EXCEPT ![s] = nRel[s] + 1]
    /\ UNCHANGED nAcq
    /\ pc' = [pc EXCEPT ![s] = "signal"]
    /\ UNCHANGED <<variant, concurrency, mu, waiting, accepted, tpc, wg,
                   conn, server, err, status, didWait, crashed>>
    /\ evs' = Emit(s, <<"release">>)
    /\ UNCHANGED <<count, ID, statA, bypassed>>

\* post(): wCond.Signal()
post_Signal(s) ==
    /\ variant = "proxy" /\ At(s, "signal")
    /\ IF SignalTargets = {}
       THEN pc' = [pc EXCEPT ![s] = "finish"]
       ELSE \E w \in SignalTargets :
              pc' = [pc EXCEPT ![s] = "finish", ![w] = "woken"]
    /\ UNCHANGED <<variant, concurrency, gate, accepted, tpc, wg, conn,
                   server, err, status, didWait, hist, crashed>>
    /\ UNCHANGED <<evs, count, ID, statA, bypassed>>

\* proxy(): deferred c.Close(), then the deferred logging closure
proxy_Finish(s) ==
    /\ variant = "proxy" /\ At(s, "finish")
    /\ conn' = [conn EXCEPT ![s] = "closed"]
    /\ status' = [status EXCEPT ![s] = IF err[s] THEN "error" ELSE "success"]
    /\ pc' = [pc EXCEPT ![s] = "done"]
    /\ UNCHANGED <<variant, concurrency, gate, accepted, tpc, wg, server,
                   err, didWait, hist, crashed>>
    /\ evs' = Emit(s, <<"closeclient", "record">>)
    /\ UNCHANGED <<count, ID, statA, bypassed>>

ProxyStep(s) ==
    \/ pre_Lock(s) \/ pre_Check(s) \/ pre_Wake(s)
    \/ proxy_Dial(s) \/ proxy_Wait(s) \/ proxy_pClose(s)
    \/ post_Dec(s) \/ post_Signal(s) \/ proxy_Finish(s)

\* ---- build "mind" (src/unnamed/part_000) --------------------------------

\* mutant: the session takes its number but count++ is forgotten
setup_Lock_noinc(s) ==
    /\ variant = "mind" /\ At(s, "acquire")
    /\ mu = NoOwner
    /\ mu' = s
    /\ wg' = [wg EXCEPT ![s] = wg[s] + 2]
    /\ waiting' = waiting + 1
    /\ pc' = [pc EXCEPT ![s] = "check"]
    /\ ID' = [ID EXCEPT ![s] = count + 1]
    /\ UNCHANGED <<variant, concurrency, active, accepted, tpc, conn, server,
                   err, status, didWait, hist, crashed, evs, count, statA,
                   bypassed>>

\* client.setup(): c.w.Add(2); wCond.L.Lock(); count++; c.ID = count; waiting++
setup_Lock(s) ==
    /\ variant = "mind" /\ At(s, "acquire")
    /\ mu = NoOwner
    /\ mu' = s
    /\ wg' = [wg EXCEPT ![s] = wg[s] + 2]
    /\ waiting' = waiting + 1
    /\ pc' = [pc EXCEPT ![s] = "check"]
    /\ UNCHANGED <<variant, concurrency, active, accepted, tpc, conn, server,
                   err, status, didWait, hist, crashed>>
    /\ count' = count + 1
    /\ ID' = [ID EXCEPT ![s] = count + 1]
    /\ UNCHANGED <<evs, statA, bypassed>>

\* mutant: `if` instead of `for`: no re-check of the limit after Wait()
setup_Check_if(s) ==
    /\ variant = "mind" /\ At(s, "check")
    /\ mu = s
    /\ IF GateFull(active, concurrency) /\ ~didWait[s]
       THEN /\ pc' = [pc EXCEPT ![s] = "parked"]
            /\ mu' = NoOwner
            /\ didWait' = [didWait EXCEPT ![s] = TRUE]
            /\ UNCHANGED <<waiting, active, nAcq, evs, bypassed>>
       ELSE /\ pc' = [pc EXCEPT ![s] = "dial"]
            /\ waiting' = waiting - 1
            /\ active' = active + 1
            /\ mu' = NoOwner
            /\ nAcq' = [nAcq EXCEPT ![s] = nAcq[s] + 1]
            /\ evs' = Emit(s, <<"acquire">>)
            /\ bypassed' = [u \in Sessions |->
                              IF u \in Overtaken(s) THEN bypassed[u] + 1
                                                     ELSE bypassed[u]]
            /\ UNCHANGED didWait
    /\ UNCHANGED <<variant, concurrency, accepted, tpc, wg, conn,
                   server, err, status, relW, nRel, crashed>>
    /\ UNCHANGED <<count, ID, statA>>

\* client.setup(): for active == concurrency { c.didWait = true; wCond.Wait() }
\* Otherwise c.waited = time.Now(); waiting--; active++; deferred Unlock().
setup_Check(s) ==
    /\ variant = "mind" /\ At(s, "check")
    /\ mu = s
    /\ IF GateFull(active, concurrency)
       THEN /\ pc' = [pc EXCEPT ![s] = "parked"]
            /\ mu' = NoOwner
            /\ didWait' = [didWait EXCEPT ![s] = TRUE]
            /\ UNCHANGED <<waiting, active, nAcq, evs, bypassed>>
       ELSE /\ pc' = [pc EXCEPT ![s] = "dial"]
            /\ waiting' = waiting - 1
            /\ active' = active + 1
            /\ mu' = NoOwner
            /\ nAcq' = [nAcq EXCEPT ![s] = nAcq[s] + 1]
            /\ evs' = Emit(s, <<"acquire">>)
            /\ bypassed' = [u \in Sessions |->
                              IF u \in Overtaken(s) THEN bypassed[u] + 1
                                                     ELSE bypassed[u]]
            /\ UNCHANGED didWait
    /\ UNCHANGED <<variant, concurrency, accepted, tpc, wg, conn,
                   server, err, status, relW, nRel, crashed>>
    /\ UNCHANGED <<count, ID, statA>>

\* client.setup(): wCond.Wait() returns after a Signal: it re-locks the mutex
setup_Wake(s) ==
    /\ variant = "mind" /\ At(s, "woken")
    /\ mu = NoOwner
    /\ mu' = s
    /\ pc' = [pc EXCEPT ![s] = "check"]
    /\ UNCHANGED <<variant, concurrency, waiting, active, accepted, tpc, wg,
                   conn, server, err, status, didWait, hist,
                   crashed>>
    /\ UNCHANGED <<evs, count, ID, statA, bypassed>>

\* client.doProxy(): c.server, c.err = net.Dial(...); on error logError()
\* and return to mind(); otherwise copyAll() starts copyTo and copyFrom.
doProxy_Dial(s) ==
    /\ variant = "mind" /\ At(s, "dial")
    /\ \E ok \in BOOLEAN :
         IF ok
         THEN /\ server' = [server EXCEPT ![s] = "open"]
              /\ tpc' = [tpc EXCEPT ![s] = [d \in Dirs |-> "copy"]]
              /\ pc' = [pc EXCEPT ![s] = "pump"]
              /\ evs' = Emit(s, <<"dial">>)
              /\ UNCHANGED <<err, status>>
         ELSE /\ err' = [err EXCEPT ![s] = TRUE]
              /\ status' = [status EXCEPT ![s] = "error"]
              /\ pc' = [pc EXCEPT ![s] = "teardown"]
              /\ evs' = Emit(s, <<"dial", "record">>)
              /\ UNCHANGED <<server, tpc>>
    /\ UNCHANGED <<variant, concurrency, gate, accepted, wg, conn, didWait,
                   hist, crashed>>
    /\ UNCHANGED <<count, ID, statA, bypassed>>

\* client.copyTo / client.copyFrom: io.Copy(...) returns because the read
\* side ended; c.w.Done(); the goroutine then blocks in `done <- true`
copy_Return(s, d) ==
    /\ variant = "mind" /\ ~crashed
    /\ tpc[s][d] = "copy"
    /\ ReadReturns(s, d)
    /\ wg' = [wg EXCEPT ![s] = wg[s] - 1]
    /\ tpc' = [tpc EXCEPT ![s][d] = "send"]
    /\ UNCHANGED <<variant, concurrency, gate, accepted, pc, conn, server,
                   err, status, didWait, hist, crashed>>
    /\ UNCHANGED <<evs, count, ID, statA, bypassed>>

\* client.copyTo / client.copyFrom: bytes arrive from the source peer and the
\* write to the broken destination fails; c.w.Done(); then `done <- true`
copy_WriteErr(s, d) ==
    /\ variant = "mind" /\ ~crashed
    /\ tpc[s][d] = "copy"
    /\ WriteFails(s, d)
    /\ wg' = [wg EXCEPT ![s] = wg[s] - 1]
    /\ tpc' = [tpc EXCEPT ![s][d] = "send"]
    /\ UNCHANGED <<variant, concurrency, gate, accepted, pc, conn, server,
                   err, status, didWait, hist, crashed>>
    /\ UNCHANGED <<evs, count, ID, statA, bypassed>>

\* client.copyAll(): `<-done` on the unbuffered channel meets the `done <- true`
\* of one copy goroutine, which then returns; c.done = time.Now();
\* back in doProxy(): c.logSuccess()
copyAll_Recv(s, d) ==
    /\ variant = "mind" /\ At(s, "pump")
    /\ tpc[s][d] = "send"
    /\ tpc' = [tpc EXCEPT ![s][d] = "exit"]
    /\ status' = [status EXCEPT ![s] = "success"]
    /\ pc' = [pc EXCEPT ![s] = "teardown"]
    /\ UNCHANGED <<variant, concurrency, gate, accepted, wg, conn, server,
                   err, didWait, hist, crashed>>
    /\ evs' = Emit(s, <<"pumpend", "record">>)
    /\ UNCHANGED <<count, ID, statA, bypassed>>

\* client.teardown(): log.Println("Teardown start"); c.conn.Close();
\* c.server.Close(); log.Println("Proxy connection closed")
\* c.server is the nil interface after a failed Dial: the method call is a
\* nil dereference, an unrecovered panic that ends the process.
teardown_Close(s) ==
    /\ variant = "mind" /\ At(s, "teardown")
    /\ conn' = [conn EXCEPT ![s] = "closed"]
    /\ IF server[s] = "nil"
       THEN /\ crashed' = TRUE
            /\ evs' = Emit(s, <<"println", "closeclient">>)
            /\ UNCHANGED <<server, pc>>
       ELSE /\ server' = [server EXCEPT ![s] = "closed"]
            /\ pc' = [pc EXCEPT ![s] = "release"]
            /\ evs' = Emit(s, <<"println", "closeclient", "closebackend",
                                "println">>)
            /\ UNCHANGED crashed
    /\ UNCHANGED <<variant, concurrency, gate, accepted, tpc, wg, err,
                   status, didWait, hist>>
    /\ UNCHANGED <<count, ID, statA, bypassed>>

\* client.teardown(): wCond.L.Lock(); active--; wCond.L.Unlock()
teardown_Dec(s) ==
    /\ variant = "mind" /\ At(s, "release")
    /\ mu = NoOwner
    /\ active' = active - 1
    /\ relW' = IF waiting > 0 THEN relW + 1 ELSE relW
    /\ nRel' = [nRel EXCEPT ![s] = nRel[s] + 1]
    /\ UNCHANGED nAcq
    /\ pc' = [pc EXCEPT ![s] = "signal"]
    /\ UNCHANGED <<variant, concurrency, mu, waiting, accepted, tpc, wg,
                   conn, server, err, status, didWait, crashed>>
    /\ evs' = Emit(s, <<"release">>)
    /\ UNCHANGED <<count, ID, statA, bypassed>>

\* client.teardown(): wCond.Signal(); mind() returns
teardown_Signal(s) ==
    /\ variant = "mind" /\ At(s, "signal")
    /\ IF SignalTargets = {}
       THEN pc' = [pc EXCEPT ![s] = "done"]
       ELSE \E w \in SignalTargets :
              pc' = [pc EXCEPT ![s] = "done", ![w] = "woken"]
    /\ UNCHANGED <<variant, concurrency, gate, accepted, tpc, wg, conn,
                   server, err, status, didWait, hist, crashed>>
    /\ UNCHANGED <<evs, count, ID, statA, bypassed>>

MindStep(s) ==
    \/ setup_Lock(s) \/ setup_Check(s) \/ setup_Wake(s)
    \/ doProxy_Dial(s) \/ (\E d \in Dirs : copyAll_Recv(s, d))
    \/ teardown_Close(s) \/ teardown_Dec(s) \/ teardown_Signal(s)

\* ---- the network peers --------------------------------------------------

\* some copy goroutine of s is inside io.Copy
Relaying(s) == \E d \in Dirs : tpc[s][d] = "copy"

\* the remote client closes or resets its end of the connection (a close that
\* happens before the copy goroutines run is first seen by them, so it is
\* taken here)
ClientClose(s) ==
    /\ ~crashed /\ Relaying(s)
    /\ conn[s] = "open"
    /\ conn' = [conn EXCEPT ![s] = "peerclosed"]
    /\ UNCHANGED <<variant, concurrency, gate, accepted, pc, tpc, wg, server,
                   err, status, didWait, hist, crashed>>
    /\ UNCHANGED <<evs, count, ID, statA, bypassed>>

\* the backend closes or resets its end of the connection
BackendClose(s) ==
    /\ ~crashed /\ Relaying(s)
    /\ server[s] = "open"
    /\ server' = [server EXCEPT ![s] = "peerclosed"]
    /\ UNCHANGED <<variant, concurrency, gate, accepted, pc, tpc, wg, conn,
                   err, status, didWait, hist, crashed>>
    /\ UNCHANGED <<evs, count, ID, statA, bypassed>>

\* ---- stats handler -------------------------------------------------------

\* stats(): a client connects; the handler goroutine evaluates the first
\* argument of fmt.Fprintf(c, "active: %d, waiting: %d\n", active, waiting):
\* it reads active, without holding wCond.L
stats_ReadActive ==
    /\ ~crashed
    /\ statA = NoRead
    /\ statA' = active
    /\ UNCHANGED <<variant, concurrency, gate, accepted, pc, tpc, wg, conn,
                   server, err, status, didWait, hist, crashed, evs, count,
                   ID, bypassed>>

\* stats(): the handler reads waiting, again without the lock, writes the
\* line "active: <statA>, waiting: <waiting>" and closes the connection
stats_ReadWaiting ==
    /\ ~crashed
    /\ statA # NoRead
    /\ statA' = NoRead
    /\ UNCHANGED <<variant, concurrency, gate, accepted, pc, tpc, wg, conn,
                   server, err, status, didWait, hist, crashed, evs, count,
                   ID, bypassed>>

\* ---- specification ------------------------------------------------------

SessionStep(s) == ProxyStep(s) \/ MindStep(s)

CopyStep(s, d) == proxy_Copy(s, d) \/ copy_Return(s, d)

Next ==
    \/ Accept
    \/ \E s \in Sessions : SessionStep(s)
    \/ \E s \in Sessions, d \in Dirs : CopyStep(s, d)
    \/ \E s \in Sessions, d \in Dirs : proxy_CopyWriteErr(s, d)
    \/ \E s \in Sessions, d \in Dirs : copy_WriteErr(s, d)
    \/ \E s \in Sessions : ClientClose(s)
    \/ \E s \in Sessions : BackendClose(s)
    \/ stats_ReadActive
    \/ stats_ReadWaiting

Spec == Init /\ [][Next]_vars

\* Every goroutine that can take a step eventually does.  What the peers do
\* (connect, close, send bytes) is not under the scheduler's control.
FairSpec ==
    /\ Spec
    /\ \A s \in Sessions : WF_vars(SessionStep(s))
    /\ \A s \in Sessions : \A d \in Dirs : WF_vars(CopyStep(s, d))
    /\ WF_vars(stats_ReadWaiting)

\* ---- state functions used by the properties -----------------------------

\* the session has passed the gate (pre() / setup() has returned)
Admitted(s) == nAcq[s] > 0

\* the session is dialing, or has dialed and not yet closed its backend socket
HoldsBackend(s) == pc[s] = "dial" \/ server[s] \in {"open", "peerclosed"}

Holders == {s \in Sessions : HoldsBackend(s)}

\* a wake-up is on its way: a releaser between its Unlock and its Signal, or
\* a signalled waiter that has not re-checked the limit yet
WakeupPending ==
    \E s \in Sessions :
       \/ pc[s] = "signal"
       \/ pc[s] = "woken"
       \/ pc[s] = "check" /\ didWait[s]

\* admitted sessions that had to block in wCond.Wait()
BlockedAdmitted == Cardinality({s \in Sessions : didWait[s] /\ Admitted(s)})

\* ---- C1 -----------------------------------------------------------------
\* C1: the number of sessions holding an open (dialing, or dialed and not yet
\* closed) backend connection never exceeds the configured capacity, in both
\* builds.
C1_BackendBound == Cardinality(Holders) <= concurrency

\* the gate is full of holders, a session is parked, and an earlier session
\* has closed its backend socket and released its slot
C1_Witness ==
    /\ Cardinality(Holders) = concurrency
    /\ Parked # {}
    /\ \E s \in Sessions : nRel[s] = 1 /\ server[s] = "closed"

\* ---- C2 -----------------------------------------------------------------
\* C2: 0 <= active <= capacity and waiting >= 0 in every reachable state.
C2_GateInvariant ==
    /\ 0 <= active /\ active <= concurrency
    /\ waiting >= 0

\* a signalled waiter races with a newly arrived session that holds the lock
\* while a slot is free
C2_Witness ==
    /\ active < concurrency
    /\ \E w, s \in Sessions :
          /\ pc[w] = "woken"
          /\ pc[s] = "check" /\ ~didWait[s]

\* ---- C3 -----------------------------------------------------------------
\* C3: no wake-up is lost: there is no state in which a slot is free, a
\* session is parked on the condition and no wake-up is pending.
C3_NoLostWakeup ==
    ~(active < concurrency /\ Parked # {} /\ ~WakeupPending)

\* sessions that have entered pre() / setup() and not yet returned from it
InAcquire == {s \in Sessions : pc[s] \in {"acquire", "check", "parked", "woken"}}

\* C3, progress form (under FairSpec): as long as the process lives, a free
\* slot with a session inside Acquire leads to an admission (the gate fills up
\* or nobody is left inside Acquire).
C3_Progress ==
    (active < concurrency /\ InAcquire # {})
       ~> (crashed \/ active = concurrency \/ InAcquire = {})

\* a releaser has unlocked and not yet signalled, a session is parked, a slot
\* is free, and another session holds the mutex in between
C3_Witness ==
    /\ active < concurrency
    /\ Parked # {}
    /\ mu # NoOwner
    /\ \E r \in Sessions : pc[r] = "signal"

\* ---- C4 -----------------------------------------------------------------
\* C4 (as stated): every Release executed while waiting > 0 makes exactly one
\* blocked Acquire return: once no wake-up is pending, as many blocked
\* sessions have been admitted as Releases ran with waiting > 0.
C4_ExactlyOnePerRelease == ~WakeupPending => BlockedAdmitted = relW

\* C4 (amended): a Release lets at most one blocked Acquire return: the
\* blocked sessions admitted never outnumber the Releases run with waiting > 0.
C4_AtMostOnePerRelease == BlockedAdmitted <= relW

\* two Releases ran with a waiter present; one admitted the waiter, the other
\* admitted no blocked session
C4_Witness == ~WakeupPending /\ relW = 2 /\ BlockedAdmitted = 1

\* ---- C5 -----------------------------------------------------------------

\* copy goroutine d of s has returned from io.Copy and called w.Done()
CopyReported(s, d) == tpc[s][d] \in {"send", "exit"}

\* the pump phase of s can end now: w.Wait() can return (proxy), or a copy
\* goroutine stands ready to send on the done channel (mind)
PumpCanEnd(s) ==
    IF variant = "proxy"
    THEN wg[s] = 0
    ELSE \E d \in Dirs : tpc[s][d] = "send"

\* C5: either-side-done: while a session is in its pump phase, the completion
\* of one copy task is enough for the pump phase to end; it never has to wait
\* for the other direction.
C5_EitherSideDone ==
    \A s \in Sessions :
       (At(s, "pump") /\ \E d \in Dirs : CopyReported(s, d)) => PumpCanEnd(s)

\* ---- C6 -----------------------------------------------------------------
\* C6: a failed backend dial does not crash the process, and the session that
\* met it ends with a status=error record, its client socket closed and its
\* slot given back.
C6_DialFailureHandled ==
    \A s \in Sessions :
       err[s] =>
          /\ ~crashed
          /\ pc[s] = "done" =>
                /\ status[s] = "error"
                /\ conn[s] = "closed"
                /\ nAcq[s] - nRel[s] = 0

\* ---- C7 -----------------------------------------------------------------

\* the goroutine of s has left its dial / pump phase
LeftDialAndPump(s) ==
    pc[s] \in {"pclose", "teardown", "release", "signal", "finish", "done"}

\* the goroutine of s no longer runs
Ended(s) == pc[s] = "done" \/ (crashed /\ pc[s] # "none")

\* C7: every session acquires at most once and releases at most once, and an
\* admitted session that has left its dial / pump phase does not end without
\* having released exactly once.
C7_OneAcquireOneRelease ==
    \A s \in Sessions :
       /\ nAcq[s] <= 1 /\ nRel[s] <= nAcq[s]
       /\ (Ended(s) /\ LeftDialAndPump(s)) => (nAcq[s] = 1 /\ nRel[s] = 1)

\* ---- C8 -----------------------------------------------------------------

\* s is in its terminal condition: sockets closed, slot released, record out
DoneState(s) ==
    /\ conn[s] = "closed"
    /\ ~HoldsBackend(s)
    /\ nRel[s] = 1
    /\ status[s] # "none"

\* C8 (as stated): with capacity 1, while a session is dialing every session
\* admitted before it has reached Done.
C8_SecondAfterFirstDone ==
    concurrency = 1 =>
       \A s, t \in Sessions :
          (s # t /\ pc[t] = "dial" /\ Admitted(s)) => DoneState(s)

\* C8 (amended): with capacity 1, while a session is dialing every session
\* admitted before it has closed its backend socket (if it opened one) and
\* released its slot.
C8_SecondAfterFirstReleased ==
    concurrency = 1 =>
       \A s, t \in Sessions :
          (s # t /\ pc[t] = "dial" /\ Admitted(s)) =>
              (~HoldsBackend(s) /\ nRel[s] = 1)

\* capacity 1: a session that had to wait is dialing after another session
\* relayed, closed its backend socket and released
C8_Witness ==
    /\ concurrency = 1
    /\ \E s, t \in Sessions :
          /\ s # t /\ pc[t] = "dial" /\ didWait[t]
          /\ nRel[s] = 1 /\ server[s] = "closed"

\* ---- C9 -----------------------------------------------------------------

\* the backend has closed the connection of a session that is in its pump
\* phase
BackendClosedExternally(s) == At(s, "pump") /\ server[s] = "peerclosed"

\* C9: against a backend that accepts every dial, a session whose backend
\* connection is closed by the backend ends its pump phase and gives its slot
\* back, also when its client stays connected and silent.
C9_BackendCloseFreesSlot ==
    \A s \in Sessions :
       BackendClosedExternally(s) ~> (nRel[s] = 1 \/ \E u \in Sessions : err[u])

\* ---- C10 ----------------------------------------------------------------

\* teardown has closed both sockets of s, copy goroutine d is blocked in
\* `done <- true`, and the only receive on that channel has already been done
CopyLeaked(s, d) ==
    /\ tpc[s][d] = "send" /\ pc[s] # "pump"
    /\ conn[s] = "closed" /\ server[s] = "closed"

\* C10: no copy task is left blocked forever once teardown has closed the
\* sockets.
C10_NoLeakedCopyTask == \A s \in Sessions : \A d \in Dirs : ~CopyLeaked(s, d)

\* ---- state functions over the event history ------------------------------

\* how often event e occurs in the sequence es
Count(es, e) == Cardinality({i \in DOMAIN es : es[i] = e})

\* the events of s without the extra log.Println lines
RECURSIVE Drop(_, _)
Drop(es, e) ==
    IF es = <<>> THEN <<>>
    ELSE IF Head(es) = e THEN Drop(Tail(es), e)
         ELSE <<Head(es)>> \o Drop(Tail(es), e)

\* ---- C11 ----------------------------------------------------------------

\* the teardown of s was cut short by the panic of a Close on a backend
\* socket that was never opened
TeardownAborted(s) == crashed /\ pc[s] = "teardown" /\ server[s] = "nil"

\* C11: no socket is closed twice; a session that has finished has closed its
\* client socket exactly once and its backend socket exactly once if it was
\* opened; and no teardown is aborted by a never-opened backend socket.
C11_SocketsClosedOnce ==
    \A s \in Sessions :
       /\ Count(evs[s], "closeclient") <= 1
       /\ Count(evs[s], "closebackend") <= 1
       /\ ~TeardownAborted(s)
       /\ pc[s] = "done" =>
             /\ Count(evs[s], "closeclient") = 1
             /\ Count(evs[s], "closebackend") = (IF server[s] = "nil" THEN 0 ELSE 1)

\* ---- C12 ----------------------------------------------------------------

\* sessions that hold a slot
NHolding == Cardinality({s \in Sessions : nAcq[s] > nRel[s]})

\* sessions that had to block in Acquire and are not admitted yet
NBlocked ==
    Cardinality({s \in Sessions :
                    pc[s] \in {"parked", "woken"} \/ (pc[s] = "check" /\ didWait[s])})

\* the stats handler writes its line in this step
StatsReports == statA # NoRead /\ statA' = NoRead

\* C12: the two numbers the stats handler writes are the number of sessions
\* holding a slot and the number of sessions blocked awaiting one.
C12_StatsExact ==
    [][StatsReports => (statA = NHolding /\ waiting = NBlocked)]_vars

\* ---- C13 ----------------------------------------------------------------

\* lines session s has written to the log
LogLines(s) == Count(evs[s], "record") + Count(evs[s], "println")

\* C13: a session never writes more than one log line, and a session that has
\* finished has written exactly one: its outcome record.
C13_OneLogLine ==
    \A s \in Sessions :
       /\ LogLines(s) <= 1
       /\ pc[s] = "done" =>
             /\ LogLines(s) = 1
             /\ Count(evs[s], "record") = 1
             /\ status[s] \in {"success", "error"}

\* ---- C14 ----------------------------------------------------------------

\* the events of proxy() in main.go, by dial outcome (e: the dial failed)
ProxyEvents(e) ==
    IF e
    THEN <<"acquire", "dial", "release", "closeclient", "record">>
    ELSE <<"acquire", "dial", "pumpend", "closebackend", "release",
           "closeclient", "record">>

\* C14: whichever build runs, a finished session has produced the same
\* sequence of observable events (the one proxy() produces for that dial
\* outcome).
C14_SameEvents ==
    \A s \in Sessions :
       pc[s] = "done" => Drop(evs[s], "println") = ProxyEvents(err[s])

\* ---- C15 ----------------------------------------------------------------

Entered == {s \in Sessions : pc[s] \notin {"none", "acquire"}}

\* the numbers handed out are distinct, and count counts the sessions numbered
NumbersDistinct ==
    /\ count = Cardinality(Entered)
    /\ \A s \in Entered : ID[s] \in 1..count
    /\ \A s, t \in Entered : s # t => ID[s] # ID[t]

\* a session that gets its number gets one above every number handed out
NumbersIncrease ==
    \A s \in Sessions :
       (ID[s] = 0 /\ ID'[s] # 0) => \A t \in Sessions : ID'[s] > ID[t]

\* C16: in the struct-based build every session gets a number distinct from
\* all others, numbers increase in the order sessions enter setup(), and
\* count equals the number of sessions that have entered.
C16_SequenceNumbers ==
    /\ [](variant = "mind" => NumbersDistinct)
    /\ [][variant = "mind" => NumbersIncrease]_vars

\* sessions accepted in one order have been numbered in another
C16_Witness ==
    /\ variant = "mind"
    /\ \E s, t \in Sessions : s < t /\ ID[t] > 0 /\ ID[s] > ID[t]

====
